---- MODULE Spec2Model ----
(***************************************************************************)
(* Model of app.py: the helmet detector's frame loop (generate_frames),    *)
(* its alert request path (play_alert), the background sound thread        *)
(* (_audio_worker) and the per-frame classification of detections.         *)
(*                                                                         *)
(* Time is the value returned by time.time(), in whole seconds.            *)
(* Confidences are hundredths (0.5 is 50).  A label is the sequence of its *)
(* characters, so that lower() and the substring tests are computed.       *)
(***************************************************************************)
EXTENDS Integers, Sequences, FiniteSets, TLC

\* ---------------- CONFIG (app.py lines 17, 18, 28) ----------------
CONFIDENCE_THRESHOLD == 50
ALERT_COOLDOWN == 5
QUEUE_MAXSIZE == 1

\* ---------------- bounds of the model ----------------
NumClients == 2
MaxTime == 10
MaxDet == 3

Clients == 1..NumClients
\* time.time() at start-up is an epoch value far above the cooldown; the
\* smallest clock value the model uses stands for it.
StartClock == ALERT_COOLDOWN

VARIABLES
    clock,        \* current value of time.time()
    audio_queue,  \* _audio_queue: the queued tokens (each is the constant 1)
    unfinished,   \* _audio_queue.unfinished_tasks (put increments, task_done decrements)
    wpc,          \* position of _audio_worker: "get" (line 34), "play" (line 38), "dead"
    now,          \* _audio_worker local now
    last_time,    \* _audio_worker local last_time
    pc,           \* position of each generate_frames loop
    viol,         \* history: per loop, does the frame in hand hold a violation (by label)
    lastIter,     \* history: what the last completed loop iteration did
    log,          \* kinds of error messages the program has printed
    dets,         \* detection list under classification
    result,       \* classification result of dets
    fires,        \* history: the clock values (now) of the playbacks started
    qtag,         \* history: for each queued token, was it requested inside the cooldown
    reqCool,      \* history: per loop, is the request being made inside the cooldown
    handled,      \* history: how the worker handled the last dequeued request
    owed          \* history: a violating frame was seen with the cooldown elapsed and no playback started since

vars == <<clock, audio_queue, unfinished, wpc, now, last_time, pc, viol, lastIter,
          log, dets, result, fires, qtag, reqCool, handled, owed>>

\* ---------------- labels and detections ----------------
UpperCase == <<"A","B","C","D","E","F","G","H","I","J","K","L","M",
               "N","O","P","Q","R","S","T","U","V","W","X","Y","Z">>
LowerCase == <<"a","b","c","d","e","f","g","h","i","j","k","l","m",
               "n","o","p","q","r","s","t","u","v","w","x","y","z">>

LowerChar(c) ==
    IF \E i \in 1..Len(UpperCase) : UpperCase[i] = c
    THEN LowerCase[CHOOSE i \in 1..Len(UpperCase) : UpperCase[i] = c]
    ELSE c

\* str.lower()
Lower(s) == [i \in 1..Len(s) |-> LowerChar(s[i])]

\* Python's  sub in s
Contains(sub, s) ==
    \E i \in 1..(Len(s) - Len(sub) + 1) : SubSeq(s, i, i + Len(sub) - 1) = sub

L_helmet    == <<"h","e","l","m","e","t">>
L_Helmet    == <<"H","e","l","m","e","t">>
L_no_helmet == <<"n","o","-","h","e","l","m","e","t">>
L_No_Helmet == <<"N","o"," ","H","e","l","m","e","t">>
L_head      == <<"h","e","a","d">>

Labels == {L_helmet, L_Helmet, L_no_helmet, L_No_Helmet, L_head}
Confidences == {40, 50, 90}
Detections == [label : Labels, conf : Confidences]
DetLists == UNION {[1..n -> Detections] : n \in 0..MaxDet}

Det(l, c) == [label |-> l, conf |-> c]

\* the detection lists the frame loops of the full model see
SampleFrames ==
    { <<>>,
      <<Det(L_helmet, 90)>>,
      <<Det(L_no_helmet, 40)>>,
      <<Det(L_no_helmet, 90)>>,
      <<Det(L_Helmet, 50), Det(L_No_Helmet, 50)>> }

NoResult == [helmet_count |-> -1, no_helmet_count |-> -1, no_helmet_detected |-> FALSE]
ZeroResult == [helmet_count |-> 0, no_helmet_count |-> 0, no_helmet_detected |-> FALSE]


\* ---------------- classification (generate_frames, lines 64-81) ----------------
\* line 71:  if conf < CONFIDENCE_THRESHOLD: continue
BelowThreshold_Inclusive(conf) == conf <= CONFIDENCE_THRESHOLD
BelowThreshold(conf) == conf < CONFIDENCE_THRESHOLD

\* line 75:  "helmet" in label.lower() and "no" not in label.lower()
IsHelmetLabel(label) ==
    /\ Contains(L_helmet, Lower(label))
    /\ ~Contains(<<"n","o">>, Lower(label))

\* lines 68-81: the loop over the boxes, from box i on, with the counters so far
RECURSIVE ClassifyLoop(_, _, _)
ClassifyLoop(detections, i, acc) ==
    IF i > Len(detections) THEN acc
    ELSE LET conf  == detections[i].conf
             label == detections[i].label
         IN  IF BelowThreshold(conf)
             THEN ClassifyLoop(detections, i + 1, acc)
             ELSE IF IsHelmetLabel(label)
                  THEN ClassifyLoop(detections, i + 1,
                           [acc EXCEPT !.helmet_count = @ + 1])
                  ELSE ClassifyLoop(detections, i + 1,
                           [acc EXCEPT !.no_helmet_count = @ + 1,
                                       !.no_helmet_detected = TRUE])

\* lines 64-81: counters start at 0 / False, then the loop
ClassifyFrame(detections) == ClassifyLoop(detections, 1, ZeroResult)

\* ---------------- initial state ----------------
NoIter == [any |-> FALSE, viol |-> FALSE, writes |-> 0, wfail |-> FALSE]

InitBase ==
    /\ clock = StartClock
    /\ audio_queue = <<>>
    /\ unfinished = 0
    /\ wpc = "get"
    /\ now = 0
    /\ last_time = 0
    /\ pc = [p \in Clients |-> "read"]
    /\ viol = [p \in Clients |-> FALSE]
    /\ lastIter = NoIter
    /\ log = {}
    /\ result = NoResult
    /\ fires = <<>>
    /\ qtag = <<>>
    /\ reqCool = [p \in Clients |-> FALSE]
    /\ handled = "none"
    /\ owed = FALSE

Init == InitBase /\ dets = <<>>

\* ---------------- time ----------------
Tick ==
    /\ clock < MaxTime
    /\ clock' = clock + 1
    /\ UNCHANGED <<audio_queue, unfinished, wpc, now, last_time, pc, viol, lastIter,
                   log, dets, result, fires, qtag, reqCool, handled, owed>>

\* time.time() is the wall clock: an adjustment can set it back
ClockBack ==
    /\ \E t \in StartClock..(clock - 1) : clock' = t
    /\ UNCHANGED <<audio_queue, unfinished, wpc, now, last_time, pc, viol, lastIter,
                   log, dets, result, fires, qtag, reqCool, handled, owed>>

\* ---------------- _audio_worker (lines 30-42) ----------------
\* line 36:  now - last_time >= ALERT_COOLDOWN
CooldownElapsed_OffByOne(n, l) == n - l >= ALERT_COOLDOWN - 1
CooldownElapsed(n, l) == n - l >= ALERT_COOLDOWN

\* history: the clock is less than ALERT_COOLDOWN past the last playback start
InCooldown == fires # <<>> /\ clock - fires[Len(fires)] < ALERT_COOLDOWN

\* faulty variant: last_time = now dedented out of the if (also set when suppressed)
WorkerGet_StampAlways ==
    /\ wpc = "get"
    /\ Len(audio_queue) > 0
    /\ audio_queue' = Tail(audio_queue)
    /\ qtag' = Tail(qtag)
    /\ now' = clock
    /\ IF CooldownElapsed(clock, last_time)
       THEN /\ wpc' = "play"
            /\ fires' = Append(fires, clock)
            /\ handled' = "fired"
            /\ owed' = FALSE
            /\ UNCHANGED <<unfinished, last_time>>
       ELSE /\ last_time' = clock
            /\ unfinished' = unfinished - 1
            /\ handled' = "suppressed"
            /\ UNCHANGED <<wpc, fires, owed>>
    /\ UNCHANGED <<clock, pc, viol, lastIter, log, dets, result, reqCool>>

\* lines 34-36 (and 42 when the request is suppressed): the blocking get, the
\* clock sample and the cooldown test; when the test passes the worker enters
\* playsound (line 38)
WorkerGet ==
    /\ wpc = "get"
    /\ Len(audio_queue) > 0
    /\ audio_queue' = Tail(audio_queue)
    /\ qtag' = Tail(qtag)
    /\ now' = clock
    /\ IF CooldownElapsed(clock, last_time)
       THEN /\ wpc' = "play"
            /\ fires' = Append(fires, clock)
            /\ handled' = "fired"
            /\ owed' = FALSE
            /\ UNCHANGED unfinished
       ELSE /\ unfinished' = unfinished - 1
            /\ handled' = "suppressed"
            /\ UNCHANGED <<wpc, fires, owed>>
    /\ UNCHANGED <<clock, last_time, pc, viol, lastIter, log, dets, result, reqCool>>

\* faulty variant: last_time is not updated after a playback
PlayOk_NoStamp ==
    /\ wpc = "play"
    /\ unfinished' = unfinished - 1
    /\ wpc' = "get"
    /\ UNCHANGED <<clock, audio_queue, now, last_time, pc, viol, lastIter, log, dets,
                   result, fires, qtag, reqCool, handled, owed>>

\* lines 38, 41, 42: playsound returns
PlayOk ==
    /\ wpc = "play"
    /\ last_time' = now
    /\ unfinished' = unfinished - 1
    /\ wpc' = "get"
    /\ UNCHANGED <<clock, audio_queue, now, pc, viol, lastIter, log, dets, result,
                   fires, qtag, reqCool, handled, owed>>

\* faulty variant: the exception is not caught and ends the thread
PlayFail_Uncaught ==
    /\ wpc = "play"
    /\ wpc' = "dead"
    /\ log' = log \cup {"audio"}
    /\ UNCHANGED <<clock, audio_queue, unfinished, now, last_time, pc, viol, lastIter,
                   dets, result, fires, qtag, reqCool, handled, owed>>

\* lines 38-42: playsound raises; the handler prints "Audio error:"
PlayFail ==
    /\ wpc = "play"
    /\ log' = log \cup {"audio"}
    /\ last_time' = now
    /\ unfinished' = unfinished - 1
    /\ wpc' = "get"
    /\ UNCHANGED <<clock, audio_queue, now, pc, viol, lastIter, dets, result,
                   fires, qtag, reqCool, handled, owed>>

\* ---------------- play_alert (lines 47-50) ----------------
\* faulty variant: the snapshot is written only when the request was accepted
CheckEmpty_SkipSnapshot(p) ==
    /\ pc[p] = "empty"
    /\ owed' = (owed \/ ~InCooldown)
    /\ IF Len(audio_queue) = 0
       THEN /\ pc' = [pc EXCEPT ![p] = "put"]
            /\ reqCool' = [reqCool EXCEPT ![p] = InCooldown]
            /\ UNCHANGED <<lastIter, viol>>
       ELSE /\ pc' = [pc EXCEPT ![p] = "read"]
            /\ lastIter' = [any |-> TRUE, viol |-> viol[p], writes |-> 0, wfail |-> FALSE]
            /\ viol' = [viol EXCEPT ![p] = FALSE]
            /\ UNCHANGED reqCool
    /\ UNCHANGED <<clock, audio_queue, unfinished, wpc, now, last_time, log,
                   dets, result, fires, qtag, handled>>

\* line 49:  if _audio_queue.empty()   (a non-empty queue drops the request)
CheckEmpty(p) ==
    /\ pc[p] = "empty"
    /\ owed' = (owed \/ ~InCooldown)
    /\ IF Len(audio_queue) = 0
       THEN /\ pc' = [pc EXCEPT ![p] = "put"]
            /\ reqCool' = [reqCool EXCEPT ![p] = InCooldown]
       ELSE /\ pc' = [pc EXCEPT ![p] = "write"]
            /\ UNCHANGED reqCool
    /\ UNCHANGED <<clock, audio_queue, unfinished, wpc, now, last_time, viol, lastIter,
                   log, dets, result, fires, qtag, handled>>

\* line 50:  _audio_queue.put(1), which waits while the queue is full
Put(p) ==
    /\ pc[p] = "put"
    /\ Len(audio_queue) < QUEUE_MAXSIZE
    /\ audio_queue' = Append(audio_queue, 1)
    /\ qtag' = Append(qtag, reqCool[p])
    /\ reqCool' = [reqCool EXCEPT ![p] = FALSE]
    /\ unfinished' = unfinished + 1
    /\ pc' = [pc EXCEPT ![p] = "write"]
    /\ UNCHANGED <<clock, wpc, now, last_time, viol, lastIter, log, dets, result,
                   fires, handled, owed>>

\* ---------------- generate_frames (lines 53-105) ----------------
\* the reference notion of a violating frame, by label
CompliantLabels == {L_helmet, L_Helmet}
HasViolation(d) ==
    \E i \in 1..Len(d) :
        d[i].conf >= CONFIDENCE_THRESHOLD /\ d[i].label \notin CompliantLabels

\* lines 57-95: a frame is read and classified.  Without a violation the
\* iteration runs on to the yield (lines 102-105) in the same step.
ReadFrame(p) ==
    /\ pc[p] = "read"
    /\ \E d \in SampleFrames :
         /\ IF ClassifyFrame(d).no_helmet_detected
            THEN /\ pc' = [pc EXCEPT ![p] = "empty"]
                 /\ viol' = [viol EXCEPT ![p] = HasViolation(d)]
                 /\ UNCHANGED lastIter
            ELSE /\ UNCHANGED <<pc, viol>>
                 /\ lastIter' = [any |-> TRUE, viol |-> HasViolation(d),
                                 writes |-> 0, wfail |-> FALSE]
    /\ UNCHANGED <<clock, audio_queue, unfinished, wpc, now, last_time, log,
                   dets, result, fires, qtag, reqCool, handled, owed>>

\* lines 97-105: cv2.imwrite is called, its boolean result is discarded, and
\* the frame is encoded and yielded
Snapshot(p, ok) ==
    /\ pc[p] = "write"
    /\ lastIter' = [any |-> TRUE, viol |-> viol[p], writes |-> 1, wfail |-> ~ok]
    /\ viol' = [viol EXCEPT ![p] = FALSE]
    /\ pc' = [pc EXCEPT ![p] = "read"]
    /\ UNCHANGED <<clock, audio_queue, unfinished, wpc, now, last_time, log,
                   dets, result, fires, qtag, reqCool, handled, owed>>

SnapshotOk(p) == Snapshot(p, TRUE)
SnapshotFail(p) == Snapshot(p, FALSE)

\* ---------------- specifications ----------------
Next ==
    \/ Tick
    \/ WorkerGet
    \/ PlayOk
    \/ PlayFail
    \/ \E p \in Clients : ReadFrame(p)
    \/ \E p \in Clients : CheckEmpty(p)
    \/ \E p \in Clients : Put(p)
    \/ \E p \in Clients : SnapshotOk(p)
    \/ \E p \in Clients : SnapshotFail(p)

Spec == Init /\ [][Next]_vars

\* the same program with a wall clock that can be set back
NextAdj == Next \/ ClockBack
SpecAdj == Init /\ [][NextAdj]_vars

\* the worker thread is scheduled, playsound returns or raises, and a loop
\* inside put proceeds when the queue has room; the clock only moves forward
FairSpec ==
    /\ Spec
    /\ WF_vars(WorkerGet)
    /\ WF_vars(PlayOk \/ PlayFail)
    /\ \A p \in Clients : WF_vars(Put(p))

\* the classification alone, on every detection list up to MaxDet boxes
InitClassify == InitBase /\ dets \in DetLists

Classify ==
    /\ result = NoResult
    /\ result' = ClassifyFrame(dets)
    /\ UNCHANGED <<clock, audio_queue, unfinished, wpc, now, last_time, pc, viol,
                   lastIter, log, dets, fires, qtag, reqCool, handled, owed>>

SpecClassify == InitClassify /\ [][Classify]_vars

\* ---------------- properties ----------------
\* a step in which the worker takes a request off the queue (line 34)
DequeueStep == Len(audio_queue') < Len(audio_queue)

\* C1: any two playbacks started by _audio_worker have start times (the now
\* of line 35) at least ALERT_COOLDOWN apart, so no window of that length
\* holds two alert fires.
C1_AlertsSpacedByCooldown ==
    \A i, j \in 1..Len(fires) :
        i < j => fires[j] - fires[i] >= ALERT_COOLDOWN
C1_Witness == Len(fires) >= 2

\* C2 (as claimed): no request is pending in _audio_queue while a playback
\* is executing.
C2_NoRequestPendingDuringPlayback ==
    wpc = "play" => Len(audio_queue) = 0

C4_DueAlertEventuallyFires == owed ~> ~owed
C4_Witness == fires # <<>> /\ ~owed /\ wpc = "play" /\ handled = "fired"

\* C5: every loop iteration whose frame holds a violation above the threshold
\* makes exactly one snapshot write attempt, and an iteration without one
\* makes none, whatever happened to the alert request.
C5_OneSnapshotPerViolatingFrame ==
    lastIter.any => lastIter.writes = (IF lastIter.viol THEN 1 ELSE 0)
C5_Witness ==
    /\ lastIter.any /\ lastIter.viol /\ lastIter.writes = 1
    /\ handled = "suppressed" /\ InCooldown

\* C6: the counts and the flag of a frame equal the reference partition:
\* detections below the threshold count nowhere, the compliant labels count
\* as helmets, all others as violations, and the flag says a violation exists.
RefKept(d) == {i \in 1..Len(d) : d[i].conf >= CONFIDENCE_THRESHOLD}
RefHelmet(d) == {i \in RefKept(d) : d[i].label \in CompliantLabels}
RefResult(d) ==
    [helmet_count       |-> Cardinality(RefHelmet(d)),
     no_helmet_count    |-> Cardinality(RefKept(d) \ RefHelmet(d)),
     no_helmet_detected |-> Cardinality(RefKept(d) \ RefHelmet(d)) > 0]
C6_ClassificationIsReferencePartition ==
    result # NoResult => result = RefResult(dets)
C6_Witness ==
    /\ result # NoResult
    /\ result.helmet_count > 0 /\ result.no_helmet_count > 0
    /\ \E i \in 1..Len(dets) : dets[i].conf = CONFIDENCE_THRESHOLD
    /\ \E i \in 1..Len(dets) : dets[i].conf < CONFIDENCE_THRESHOLD

\* C7 (as claimed): no call of play_alert ever waits: a loop that reaches
\* put finds room in the queue.
C7_PlayAlertNeverBlocks ==
    \A p \in Clients : pc[p] = "put" => Len(audio_queue) < QUEUE_MAXSIZE

\* C8: a failed playback does not end the worker: the request is marked
\* done, the worker waits on the queue again, and from then on a request
\* dequeued with the cooldown elapsed starts a playback.
C8_WorkerSurvivesAudioError ==
    [][("audio" \in log') =>
          /\ wpc' \in {"get", "play"}
          /\ (wpc = "play" /\ wpc' # "play") =>
                 (wpc' = "get" /\ unfinished' = unfinished - 1)
          /\ (DequeueStep /\ ~InCooldown) =>
                 (wpc' = "play" /\ Len(fires') = Len(fires) + 1)]_vars
C8_Witness == "audio" \in log /\ wpc = "play" /\ Len(fires) >= 2

\* C9 (as claimed): a failed snapshot write is reported by the program.
C9_SnapshotFailureSurfaced ==
    lastIter.wfail => "snapshot" \in log

\* C10 (as claimed): a request handled at a clock value below last_time
\* (negative elapsed) starts a playback at once.
C10_BackwardClockFiresImmediately ==
    [][(DequeueStep /\ clock < last_time) => Len(fires') = Len(fires) + 1]_vars
====
